---- MODULE Spec2Model ----
(***************************************************************************)
(* Model of src/app.js (src/unnamed/part_000 is the same program with the  *)
(* section selector '.gw-chapter' instead of 'section').                   *)
(*                                                                         *)
(* The page-load handler runs load360ViewerScript, setupIntersectionObser- *)
(* ver and setupParallax once; afterwards the platform delivers batches of *)
(* IntersectionObserver entries and animation frames, and the user         *)
(* scrolls.  Numbers are fixed-point hundredths (0.3 is 30, 60px is 6000); *)
(* a number value is a record [nan, v] so that NaN is a value of its own.  *)
(***************************************************************************)
EXTENDS Integers, Sequences, FiniteSets, TLC

\* ------------------------------------------------------------------ bounds
NumSections == 2
NumElems == 2
MaxBatch == 2
\* the largest product (sections x parallax elements) of a document of Init
MaxMixed == 1

SectionIds == 1..NumSections
ElemIds == 1..NumElems
ScrollPositions == {0, 100, 200, 500}

\* data-parallax attribute texts, one character per element
StrengthTexts ==
    { <<"-", "1">>, <<"0">>, <<"0", ".", "1", "5">>, <<"0", ".", "3">>,
      <<"0", ".", "5">>, <<"5">>, <<"a", "b", "c">> }

\* dataset.src of the mount element: the data-src texts of the documents of Init
\* (defined is FALSE for a missing attribute, which reads as undefined)
PanoSources ==
    { [defined |-> TRUE, str |-> "tour.jpg"],
      [defined |-> TRUE, str |-> "lobby.jpg"] }

\* -------------------------------------------------------------- constants
PARALLAX_MAX_STRENGTH == 30

MsgPanoFound ==
    "360 Viewer Logic: Element '.gw-pano' found. Hypothetical 360 viewer script is loaded and initialized."

MsgPanoSkipped ==
    "360 Viewer Logic: Element '.gw-pano' NOT found. 360 script loading successfully skipped."

MsgParallaxDisabled ==
    "Parallax Logic: Reduced motion detected. Parallax scrolling is disabled."

MsgParallaxActive ==
    "Parallax Logic: Parallax initialized and active via requestAnimationFrame."

\* --------------------------------------------------------------- variables
VARIABLES
    pc,                   \* "waiting" before window.onload fires, "loaded" after
    prefersReducedMotion, \* sampled when the script is evaluated
    mediaPref,            \* what the media query matches now
    sinceChange,          \* what has run while mediaPref differed from the sample
    panoPresent,          \* document.querySelector('.gw-pano') finds an element
    panoSrc,              \* its dataset.src
    panoInnerHTML,        \* its innerHTML
    innerHTMLSets,        \* number of assignments to panoElement.innerHTML
    console,              \* console.log output, in order
    calls,                \* the functions window.onload has called, in order
    domSections,          \* the section elements of the document
    hasContent,           \* section has a '.section-content' wrapper
    classVisible,         \* section's classList contains 'is-visible'
    transition,           \* inline style.transition of the section's wrapper
    transitionAtReveal,   \* wrapper's style.transition when classList.add ran
    lateEntry,            \* an entry was delivered for the section after its reveal
    gotIntersecting,      \* an intersecting entry was delivered for the section
    ignoredEntry,         \* a non-intersecting entry was delivered
    sections,             \* the NodeList snapshot of setupIntersectionObserver
    observed,             \* the observer's observation targets
    domParallax,          \* the [data-parallax] elements of the document
    dataParallax,         \* el.dataset.parallax, as text
    transform,            \* last value assigned to el.style.transform
    parallaxElements,     \* the snapshot of setupParallax
    lastScrollY,          \* closure variable of setupParallax
    scrollY,              \* window.scrollY
    rafPending,           \* frame callbacks requested and not yet run
    lastTick              \* the branch the most recent frame took: "changed" or "unchanged"

docVars == <<prefersReducedMotion, mediaPref, panoPresent, panoSrc, domSections,
             hasContent, domParallax, dataParallax>>

panoVars == <<panoInnerHTML, innerHTMLSets, console, calls>>

revealVars == <<classVisible, transition, transitionAtReveal, lateEntry, gotIntersecting,
                ignoredEntry, sections, observed>>

parallaxVars == <<transform, parallaxElements, lastScrollY, rafPending, lastTick>>

vars == <<pc, docVars, sinceChange, panoVars, revealVars, parallaxVars, scrollY>>

\* ----------------------------------------------------------------- numbers
NaN == [nan |-> TRUE, v |-> 0]

Num(x) == [nan |-> FALSE, v |-> x]

\* Math.max returning the other argument when one is NaN
MathMax_IgnoreNaN(a, b) ==
    IF a.nan THEN b ELSE IF b.nan THEN a ELSE IF a.v >= b.v THEN a ELSE b

\* Math.max / Math.min: NaN if either argument is NaN
MathMax(a, b) == IF a.nan \/ b.nan THEN NaN ELSE IF a.v >= b.v THEN a ELSE b

MathMin(a, b) == IF a.nan \/ b.nan THEN NaN ELSE IF a.v <= b.v THEN a ELSE b

\* the * operator on fixed-point hundredths
Times(a, b) == IF a.nan \/ b.nan THEN NaN ELSE Num((a.v * b.v) \div 100)

DecimalDigits == {"0", "1", "2", "3", "4", "5", "6", "7", "8", "9"}

DigitVal(c) ==
    CASE c = "0" -> 0 [] c = "1" -> 1 [] c = "2" -> 2 [] c = "3" -> 3
      [] c = "4" -> 4 [] c = "5" -> 5 [] c = "6" -> 6 [] c = "7" -> 7
      [] c = "8" -> 8 [] c = "9" -> 9

\* the first index >= i of t that holds no decimal digit
RECURSIVE DigitsEnd(_, _)
DigitsEnd(t, i) ==
    IF i <= Len(t) /\ t[i] \in DecimalDigits THEN DigitsEnd(t, i + 1) ELSE i

\* the first index >= i of t that holds no white space
RECURSIVE SkipSpaces(_, _)
SkipSpaces(t, i) ==
    IF i <= Len(t) /\ t[i] = " " THEN SkipSpaces(t, i + 1) ELSE i

\* the value of the decimal digits t[i..j-1]
RECURSIVE DigitsValue(_, _, _)
DigitsValue(t, i, j) ==
    IF j <= i THEN 0 ELSE DigitsValue(t, i, j - 1) * 10 + DigitVal(t[j - 1])

\* parseFloat: leading white space, a sign, digits, a point, digits; the longest
\* such prefix is the number and NaN is the result when it holds no digit.
\* (Exponents and "Infinity" are not among the texts of StrengthTexts; decimals
\* beyond the second are not either.)
parseFloat(t) ==
    LET s0 == SkipSpaces(t, 1)
        signed == s0 <= Len(t) /\ t[s0] \in {"-", "+"}
        neg == signed /\ t[s0] = "-"
        i0 == IF signed THEN s0 + 1 ELSE s0
        i1 == DigitsEnd(t, i0)
        dot == i1 <= Len(t) /\ t[i1] = "."
        f0 == IF dot THEN i1 + 1 ELSE i1
        f1 == IF dot THEN DigitsEnd(t, f0) ELSE i1
        d1 == IF f1 - f0 >= 1 THEN DigitVal(t[f0]) ELSE 0
        d2 == IF f1 - f0 >= 2 THEN DigitVal(t[f0 + 1]) ELSE 0
        mag == DigitsValue(t, i0, i1) * 100 + d1 * 10 + d2
    IN  IF i1 = i0 /\ f1 = f0 THEN NaN
        ELSE Num(IF neg THEN 0 - mag ELSE mag)

\* ------------------------------------------------------------ PanoramaLoader
\* the template literal reading panoElement.src, which the mount element lacks
ConfirmationMarkup_ElementSrc(src) ==
    << "<p class=\"text-lg text-indigo-700 font-semibold\">360 Viewer Initialized! (Source: ",
       "undefined", ")</p>" >>

\* String(panoElement.dataset.src) inside the template literal
SrcText(src) == IF src.defined THEN src.str ELSE "undefined"

\* the template literal assigned to panoElement.innerHTML
ConfirmationMarkup(src) ==
    << "<p class=\"text-lg text-indigo-700 font-semibold\">360 Viewer Initialized! (Source: ",
       SrcText(src), ")</p>" >>

\* load360ViewerScript taking the found branch whatever querySelector returned
load360ViewerScript_NoPresenceCheck(present, src, html, sets, con) ==
    [console |-> Append(con, MsgPanoFound),
     innerHTML |-> <<"360 Viewer Initialized!">>,
     sets |-> sets + 1]

\* load360ViewerScript, as the new values of what it may write
load360ViewerScript(present, src, html, sets, con) ==
    IF present
    THEN [console |-> Append(con, MsgPanoFound),
          innerHTML |-> ConfirmationMarkup(src),
          sets |-> sets + 1]
    ELSE [console |-> Append(con, MsgPanoSkipped),
          innerHTML |-> html,
          sets |-> sets]

\* ---------------------------------------------------------- RevealController
\* the state the observer callback reads and writes
RevealState ==
    [classVisible |-> classVisible, transition |-> transition,
     transitionAtReveal |-> transitionAtReveal, lateEntry |-> lateEntry,
     gotIntersecting |-> gotIntersecting, ignoredEntry |-> ignoredEntry,
     observed |-> observed]

\* observerEntry with classList.toggle in place of classList.add
observerEntry_Toggle(st, entry) ==
    LET target == entry.target
        content == hasContent[target]
        noted == [st EXCEPT !.lateEntry[target] = @ \/ st.classVisible[target],
                            !.gotIntersecting[target] = @ \/ entry.isIntersecting,
                            !.ignoredEntry = @ \/ ~entry.isIntersecting]
    IN  IF content
        THEN IF entry.isIntersecting
             THEN LET styled == IF prefersReducedMotion
                                THEN [noted EXCEPT !.transition[target] = "none"]
                                ELSE noted
                  IN  [styled EXCEPT !.classVisible[target] = ~@,
                                     !.transitionAtReveal[target] = styled.transition[target],
                                     !.observed = @ \ {target}]
             ELSE noted
        ELSE noted

\* observerEntry without the `if (content)` test
observerEntry_NoContentCheck(st, entry) ==
    LET target == entry.target
        noted == [st EXCEPT !.lateEntry[target] = @ \/ st.classVisible[target],
                            !.gotIntersecting[target] = @ \/ entry.isIntersecting,
                            !.ignoredEntry = @ \/ ~entry.isIntersecting]
    IN  IF entry.isIntersecting
        THEN LET styled == IF prefersReducedMotion /\ hasContent[target]
                           THEN [noted EXCEPT !.transition[target] = "none"]
                           ELSE noted
             IN  [styled EXCEPT !.classVisible[target] = TRUE,
                                !.transitionAtReveal[target] = styled.transition[target],
                                !.observed = @ \ {target}]
        ELSE noted

\* observerEntry disabling the transition after the flag is added, not before
observerEntry_StyleAfterFlag(st, entry) ==
    LET target == entry.target
        content == hasContent[target]
        noted == [st EXCEPT !.lateEntry[target] = @ \/ st.classVisible[target],
                            !.gotIntersecting[target] = @ \/ entry.isIntersecting,
                            !.ignoredEntry = @ \/ ~entry.isIntersecting]
    IN  IF content
        THEN IF entry.isIntersecting
             THEN LET flagged == [noted EXCEPT !.classVisible[target] = TRUE,
                                               !.transitionAtReveal[target] =
                                                   noted.transition[target],
                                               !.observed = @ \ {target}]
                  IN  IF prefersReducedMotion
                      THEN [flagged EXCEPT !.transition[target] = "none"]
                      ELSE flagged
             ELSE noted
        ELSE noted

\* observerEntry calling unobserve after the `if (entry.isIntersecting)` block
observerEntry_UnobserveAlways(st, entry) ==
    LET target == entry.target
        content == hasContent[target]
        noted == [st EXCEPT !.lateEntry[target] = @ \/ st.classVisible[target],
                            !.gotIntersecting[target] = @ \/ entry.isIntersecting,
                            !.ignoredEntry = @ \/ ~entry.isIntersecting]
    IN  IF content
        THEN IF entry.isIntersecting
             THEN LET styled == IF prefersReducedMotion
                                THEN [noted EXCEPT !.transition[target] = "none"]
                                ELSE noted
                  IN  [styled EXCEPT !.classVisible[target] = TRUE,
                                     !.transitionAtReveal[target] = styled.transition[target],
                                     !.observed = @ \ {target}]
             ELSE [noted EXCEPT !.observed = @ \ {target}]
        ELSE noted

\* observerEntry querying the media query again instead of reading the
\* sampled prefersReducedMotion
observerEntry_LivePreference(st, entry) ==
    LET target == entry.target
        content == hasContent[target]
        noted == [st EXCEPT !.lateEntry[target] = @ \/ st.classVisible[target],
                            !.gotIntersecting[target] = @ \/ entry.isIntersecting,
                            !.ignoredEntry = @ \/ ~entry.isIntersecting]
    IN  IF content
        THEN IF entry.isIntersecting
             THEN LET styled == IF mediaPref
                                THEN [noted EXCEPT !.transition[target] = "none"]
                                ELSE noted
                  IN  [styled EXCEPT !.classVisible[target] = TRUE,
                                     !.transitionAtReveal[target] = styled.transition[target],
                                     !.observed = @ \ {target}]
             ELSE noted
        ELSE noted

\* observerEntry calling observer.disconnect() in place of unobserve
observerEntry_Disconnect(st, entry) ==
    LET target == entry.target
        content == hasContent[target]
        noted == [st EXCEPT !.lateEntry[target] = @ \/ st.classVisible[target],
                            !.gotIntersecting[target] = @ \/ entry.isIntersecting,
                            !.ignoredEntry = @ \/ ~entry.isIntersecting]
    IN  IF content
        THEN IF entry.isIntersecting
             THEN LET styled == IF prefersReducedMotion
                                THEN [noted EXCEPT !.transition[target] = "none"]
                                ELSE noted
                  IN  [styled EXCEPT !.classVisible[target] = TRUE,
                                     !.transitionAtReveal[target] = styled.transition[target],
                                     !.observed = {}]
             ELSE noted
        ELSE noted

\* the body of entries.forEach(entry => ...) for one entry
observerEntry(st, entry) ==
    LET target == entry.target
        content == hasContent[target]
        noted == [st EXCEPT !.lateEntry[target] = @ \/ st.classVisible[target],
                            !.gotIntersecting[target] = @ \/ entry.isIntersecting,
                            !.ignoredEntry = @ \/ ~entry.isIntersecting]
    IN  IF content
        THEN IF entry.isIntersecting
             THEN LET styled == IF prefersReducedMotion
                                THEN [noted EXCEPT !.transition[target] = "none"]
                                ELSE noted
                  IN  [styled EXCEPT !.classVisible[target] = TRUE,
                                     !.transitionAtReveal[target] = styled.transition[target],
                                     !.observed = @ \ {target}]
             ELSE noted
        ELSE noted

\* entries.forEach over the batch, in order
RECURSIVE observerCallback(_, _)
observerCallback(st, entries) ==
    IF entries = <<>> THEN st
    ELSE observerCallback(observerEntry(st, Head(entries)), Tail(entries))

\* setupIntersectionObserver: snapshot the sections and observe each
setupIntersectionObserver(dom) == [sections |-> dom, observed |-> dom]

\* -------------------------------------------------------- ParallaxController
\* clampedStrength without the Math.min against PARALLAX_MAX_STRENGTH
clampedStrength_NoUpperBound(strength) == MathMax(Num(0), strength)

\* Math.min(Math.max(0, strength), PARALLAX_MAX_STRENGTH)
clampedStrength(strength) ==
    MathMin(MathMax(Num(0), strength), Num(PARALLAX_MAX_STRENGTH))

\* movement without the factor -1
movement_NoNegation(currentScrollY, strength) ==
    Times(Num(currentScrollY * 100), clampedStrength(strength))

\* currentScrollY * clampedStrength * -1
movement(currentScrollY, strength) ==
    Times(Times(Num(currentScrollY * 100), clampedStrength(strength)), Num(0 - 100))

\* the value `translateY(${movement}px)` assigned to el.style.transform
TranslateY(m) == [set |-> TRUE, nan |-> m.nan, v |-> m.v]

NoTransform == [set |-> FALSE, nan |-> FALSE, v |-> 0]

\* setupParallax without the early return on prefersReducedMotion
setupParallax_NoReducedMotionCheck(reduced, con) ==
    [console |-> Append(con, MsgParallaxActive),
     parallaxElements |-> domParallax,
     lastScrollY |-> scrollY,
     raf |-> 1]

\* setupParallax, as the new values of what it may write
setupParallax(reduced, con) ==
    IF reduced
    THEN [console |-> Append(con, MsgParallaxDisabled),
          parallaxElements |-> parallaxElements,
          lastScrollY |-> lastScrollY,
          raf |-> 0]
    ELSE [console |-> Append(con, MsgParallaxActive),
          parallaxElements |-> domParallax,
          lastScrollY |-> scrollY,
          raf |-> 1]

\* ------------------------------------------------------------------ actions
\* sinceChange after `what` ran: noted when the media query no longer matches
\* the sampled prefersReducedMotion
NoteSince(what) ==
    IF mediaPref # prefersReducedMotion THEN sinceChange \cup {what} ELSE sinceChange

\* a document: a reduced-motion preference, an optional mount element, up to
\* NumSections sections with or without a wrapper and up to NumElems elements
\* with a strength text, at most MaxMixed (section, element) pairs in all
Init ==
    /\ pc = "waiting"
    /\ prefersReducedMotion \in BOOLEAN
    /\ mediaPref = prefersReducedMotion
    /\ sinceChange = {}
    /\ panoPresent \in BOOLEAN
    /\ panoSrc \in IF panoPresent THEN PanoSources ELSE {[defined |-> FALSE, str |-> ""]}
    /\ panoInnerHTML = <<"placeholder">>
    /\ innerHTMLSets = 0
    /\ console = <<>>
    /\ calls = <<>>
    /\ \E k \in 0..NumSections, m \in 0..NumElems :
          /\ k * m <= MaxMixed
          /\ domSections = 1..k
          /\ domParallax = 1..m
    /\ hasContent \in [SectionIds -> BOOLEAN]
    /\ \A s \in SectionIds \ domSections : ~hasContent[s]
    /\ classVisible = [s \in SectionIds |-> FALSE]
    /\ transition = [s \in SectionIds |-> ""]
    /\ transitionAtReveal = [s \in SectionIds |-> "unrevealed"]
    /\ lateEntry = [s \in SectionIds |-> FALSE]
    /\ gotIntersecting = [s \in SectionIds |-> FALSE]
    /\ ignoredEntry = FALSE
    /\ sections = {}
    /\ observed = {}
    /\ dataParallax \in [ElemIds -> StrengthTexts \cup {<<>>}]
    /\ \A e \in ElemIds : (dataParallax[e] = <<>>) <=> (e \notin domParallax)
    /\ transform = [e \in ElemIds |-> NoTransform]
    /\ parallaxElements = {}
    /\ lastScrollY = 0
    /\ scrollY \in ScrollPositions
    /\ rafPending = 0
    /\ lastTick = "none"

\* window.onload calling setupParallax first and load360ViewerScript last
OnLoad_ParallaxFirst ==
    /\ pc = "waiting"
    /\ pc' = "loaded"
    /\ \E px \in {setupParallax(prefersReducedMotion, console)},
          io \in {setupIntersectionObserver(domSections)} :
       \E pano \in {load360ViewerScript(panoPresent, panoSrc, panoInnerHTML,
                                         innerHTMLSets, px.console)} :
           /\ panoInnerHTML' = pano.innerHTML
           /\ innerHTMLSets' = pano.sets
           /\ sections' = io.sections
           /\ observed' = io.observed
           /\ console' = pano.console
           /\ parallaxElements' = px.parallaxElements
           /\ lastScrollY' = px.lastScrollY
           /\ rafPending' = rafPending + px.raf
    /\ calls' = calls \o <<"setupParallax", "setupIntersectionObserver",
                           "load360ViewerScript">>
    /\ UNCHANGED <<docVars, sinceChange, classVisible, transition, transitionAtReveal, lateEntry,
                   gotIntersecting, ignoredEntry, transform, lastTick, scrollY>>

\* window.onload
OnLoad ==
    /\ pc = "waiting"
    /\ pc' = "loaded"
    /\ calls' = calls \o <<"load360ViewerScript", "setupIntersectionObserver",
                           "setupParallax">>
    /\ \E pano \in {load360ViewerScript(panoPresent, panoSrc, panoInnerHTML,
                                         innerHTMLSets, console)},
          io \in {setupIntersectionObserver(domSections)} :
       \E px \in {setupParallax(prefersReducedMotion, pano.console)} :
           /\ panoInnerHTML' = pano.innerHTML
           /\ innerHTMLSets' = pano.sets
           /\ sections' = io.sections
           /\ observed' = io.observed
           /\ console' = px.console
           /\ parallaxElements' = px.parallaxElements
           /\ lastScrollY' = px.lastScrollY
           /\ rafPending' = rafPending + px.raf
    /\ UNCHANGED <<docVars, sinceChange, classVisible, transition, transitionAtReveal, lateEntry,
                   gotIntersecting, ignoredEntry, transform, lastTick, scrollY>>

\* the batches the platform may deliver: entries queued for the targets under
\* observation when the callback starts, a target possibly more than once
Batches == UNION {[1..n -> [target : observed, isIntersecting : BOOLEAN]] : n \in 1..MaxBatch}

\* the IntersectionObserver callback on one batch
IntersectionCallback(entries) ==
    /\ pc = "loaded"
    /\ \E st \in {observerCallback(RevealState, entries)} :
           /\ classVisible' = st.classVisible
           /\ transition' = st.transition
           /\ transitionAtReveal' = st.transitionAtReveal
           /\ lateEntry' = st.lateEntry
           /\ gotIntersecting' = st.gotIntersecting
           /\ ignoredEntry' = st.ignoredEntry
           /\ observed' = st.observed
           /\ sinceChange' = IF st.classVisible # classVisible
                              THEN NoteSince("reveal")
                              ELSE sinceChange
    /\ UNCHANGED <<pc, docVars, panoVars, sections, parallaxVars, scrollY>>

\* updateParallax without the `currentScrollY !== lastScrollY` test
updateParallax_NoScrollCheck ==
    /\ rafPending > 0
    /\ LET currentScrollY == scrollY
       IN  /\ lastScrollY' = currentScrollY
           /\ transform' = [e \in ElemIds |->
                              IF e \in parallaxElements
                              THEN TranslateY(movement(currentScrollY,
                                                       parseFloat(dataParallax[e])))
                              ELSE transform[e]]
           /\ lastTick' = IF currentScrollY # lastScrollY THEN "changed" ELSE "unchanged"
    /\ rafPending' = (rafPending - 1) + 1
    /\ sinceChange' = NoteSince("tick")
    /\ UNCHANGED <<pc, docVars, panoVars, revealVars, parallaxElements, scrollY>>

\* updateParallax requesting the next frame inside the `if`, not after it
updateParallax_RequestInsideIf ==
    /\ rafPending > 0
    /\ LET currentScrollY == scrollY
       IN  IF currentScrollY # lastScrollY
           THEN /\ lastScrollY' = currentScrollY
                /\ transform' = [e \in ElemIds |->
                                   IF e \in parallaxElements
                                   THEN TranslateY(movement(currentScrollY,
                                                            parseFloat(dataParallax[e])))
                                   ELSE transform[e]]
                /\ lastTick' = "changed"
                /\ rafPending' = (rafPending - 1) + 1
           ELSE /\ UNCHANGED <<lastScrollY, transform>>
                /\ lastTick' = "unchanged"
                /\ rafPending' = rafPending - 1
    /\ sinceChange' = NoteSince("tick")
    /\ UNCHANGED <<pc, docVars, panoVars, revealVars, parallaxElements, scrollY>>

\* updateParallax querying the document for [data-parallax] on every frame
updateParallax_LiveQuery ==
    /\ rafPending > 0
    /\ LET currentScrollY == scrollY
       IN  IF currentScrollY # lastScrollY
           THEN /\ lastScrollY' = currentScrollY
                /\ transform' = [e \in ElemIds |->
                                   IF e \in domParallax
                                   THEN TranslateY(movement(currentScrollY,
                                                            parseFloat(dataParallax[e])))
                                   ELSE transform[e]]
                /\ lastTick' = "changed"
           ELSE /\ UNCHANGED <<lastScrollY, transform>>
                /\ lastTick' = "unchanged"
    /\ rafPending' = (rafPending - 1) + 1
    /\ sinceChange' = NoteSince("tick")
    /\ UNCHANGED <<pc, docVars, panoVars, revealVars, parallaxElements, scrollY>>

\* updateParallax without the assignment lastScrollY = currentScrollY
updateParallax_StaleBaseline ==
    /\ rafPending > 0
    /\ LET currentScrollY == scrollY
       IN  IF currentScrollY # lastScrollY
           THEN /\ UNCHANGED lastScrollY
                /\ transform' = [e \in ElemIds |->
                                   IF e \in parallaxElements
                                   THEN TranslateY(movement(currentScrollY,
                                                            parseFloat(dataParallax[e])))
                                   ELSE transform[e]]
                /\ lastTick' = "changed"
           ELSE /\ UNCHANGED <<lastScrollY, transform>>
                /\ lastTick' = "unchanged"
    /\ rafPending' = (rafPending - 1) + 1
    /\ sinceChange' = NoteSince("tick")
    /\ UNCHANGED <<pc, docVars, panoVars, revealVars, parallaxElements, scrollY>>

\* one animation frame: updateParallax
updateParallax ==
    /\ rafPending > 0
    /\ LET currentScrollY == scrollY
       IN  IF currentScrollY # lastScrollY
           THEN /\ lastScrollY' = currentScrollY
                /\ transform' = [e \in ElemIds |->
                                   IF e \in parallaxElements
                                   THEN TranslateY(movement(currentScrollY,
                                                            parseFloat(dataParallax[e])))
                                   ELSE transform[e]]
                /\ lastTick' = "changed"
           ELSE /\ UNCHANGED <<lastScrollY, transform>>
                /\ lastTick' = "unchanged"
    /\ rafPending' = (rafPending - 1) + 1
    /\ sinceChange' = NoteSince("tick")
    /\ UNCHANGED <<pc, docVars, panoVars, revealVars, parallaxElements, scrollY>>

\* the user scrolls the window
Scroll(y) ==
    /\ y # scrollY
    /\ scrollY' = y
    /\ UNCHANGED <<pc, docVars, sinceChange, panoVars, revealVars, parallaxVars>>

Next ==
    \/ OnLoad
    \/ \E entries \in Batches : IntersectionCallback(entries)
    \/ updateParallax
    \/ \E y \in ScrollPositions : Scroll(y)

Spec == Init /\ [][Next]_vars

\* ------------------------------------------- a document that changes later
\* data-parallax texts of the documents that change later
LateStrengths == { <<"0", ".", "5">>, <<"a", "b", "c">> }

\* a script inserts one section, with or without a wrapper, after page load
AddSection(c) ==
    /\ pc = "loaded"
    /\ domSections = sections
    /\ \E s \in SectionIds \ domSections :
          /\ \A t \in SectionIds \ domSections : s <= t
          /\ domSections' = domSections \cup {s}
          /\ hasContent' = [hasContent EXCEPT ![s] = c]
    /\ UNCHANGED <<pc, prefersReducedMotion, mediaPref, panoPresent, panoSrc, domParallax,
                   dataParallax, sinceChange, panoVars, revealVars, parallaxVars, scrollY>>

\* a script inserts one element with a data-parallax attribute after page
\* load, while the frame loop is running
AddParallaxElement(t) ==
    /\ pc = "loaded"
    /\ ~prefersReducedMotion
    /\ domParallax = parallaxElements
    /\ \E e \in ElemIds \ domParallax :
          /\ \A f \in ElemIds \ domParallax : e <= f
          /\ domParallax' = domParallax \cup {e}
          /\ dataParallax' = [dataParallax EXCEPT ![e] = t]
    /\ UNCHANGED <<pc, prefersReducedMotion, mediaPref, panoPresent, panoSrc, domSections,
                   hasContent, sinceChange, panoVars, revealVars, parallaxVars, scrollY>>

\* the user changes the platform's reduced-motion preference, before or after
\* page load; the constant of line 5 is not assigned again
ChangePreference ==
    /\ mediaPref' = ~mediaPref
    /\ UNCHANGED <<pc, prefersReducedMotion, panoPresent, panoSrc, domSections, hasContent,
                   domParallax, dataParallax, sinceChange, panoVars, revealVars,
                   parallaxVars, scrollY>>

\* the documents of Init that have no mount element and strengths of
\* LateStrengths
InitEnv ==
    /\ Init
    /\ ~panoPresent
    /\ \A e \in domParallax : dataParallax[e] \in LateStrengths

\* the program in a document that scripts add to after page load
NextLateDom ==
    \/ OnLoad
    \/ \E entries \in Batches : IntersectionCallback(entries)
    \/ updateParallax
    \/ \E y \in ScrollPositions : Scroll(y)
    \/ \E c \in BOOLEAN : AddSection(c)
    \/ \E t \in LateStrengths : AddParallaxElement(t)

SpecLateDom == InitEnv /\ [][NextLateDom]_vars

\* the program on a platform whose reduced-motion preference changes
NextPrefChange ==
    \/ OnLoad
    \/ \E entries \in Batches : IntersectionCallback(entries)
    \/ updateParallax
    \/ \E y \in ScrollPositions : Scroll(y)
    \/ ChangePreference

SpecPrefChange == InitEnv /\ [][NextPrefChange]_vars

\* ------------------------------------------------------------------- claims
\* C1: when the reduced-motion flag is true, setupParallax schedules no frame
\* callback and no frame ever runs or writes an element's transform, whatever
\* the scroll position does afterwards.
C1_ReducedMotionDisablesParallax ==
    prefersReducedMotion =>
        /\ rafPending = 0
        /\ lastTick = "none"
        /\ \A e \in ElemIds : ~transform[e].set

\* the page has loaded under reduced motion, with parallax elements in the
\* document and the window scrolled away from the top
C1_Witness ==
    /\ prefersReducedMotion
    /\ pc = "loaded"
    /\ domParallax # {}
    /\ console[Len(console)] = MsgParallaxDisabled
    /\ scrollY = 500

\* C2: once the visibility flag is applied to a section, Revealed is terminal:
\* an observer entry for that section, intersecting or not, changes neither the
\* flag, the wrapper's transition style nor the observed set; and where such a
\* later entry has been delivered the section is still flagged, unobserved and
\* styled as it was when revealed.
C2_RevealedIsTerminal ==
    \A s \in sections :
        classVisible[s] =>
            /\ \A b \in BOOLEAN :
                  LET st == observerEntry(RevealState, [target |-> s, isIntersecting |-> b])
                  IN  /\ st.classVisible = classVisible
                      /\ st.transition = transition
                      /\ st.observed = observed
            /\ lateEntry[s] => (s \notin observed /\ transition[s] = transitionAtReveal[s])

\* a section was revealed and a later entry of the batch targeted it again
C2_Witness ==
    \E s \in sections : classVisible[s] /\ lateEntry[s] /\ s \notin observed

\* C3: a snapshotted section without a content wrapper is never flagged visible,
\* whatever entries are delivered for it, and it stays observed.
C3_NoWrapperNeverRevealed ==
    \A s \in sections :
        ~hasContent[s] => (~classVisible[s] /\ s \in observed /\ transition[s] = "")

\* an intersecting entry was delivered for a section that has no wrapper
C3_Witness ==
    \E s \in sections : ~hasContent[s] /\ gotIntersecting[s]

\* C4: a frame that reads a scroll position equal to the stored baseline assigns
\* no element's transform and leaves the baseline unchanged.
C4_UnchangedScrollSkipsWork ==
    [][(updateParallax /\ scrollY = lastScrollY) =>
          (transform' = transform /\ lastScrollY' = lastScrollY /\ lastTick' = "unchanged")]_vars

\* a frame took the unchanged branch after an earlier frame had written offsets
C4_Witness ==
    /\ lastTick = "unchanged"
    /\ scrollY = lastScrollY
    /\ \E e \in parallaxElements : transform[e].set

\* the strength texts that are numbers, and their values in hundredths, as the
\* claims state them
NumericStrengths ==
    { <<"-", "1">>, <<"0">>, <<"0", ".", "1", "5">>, <<"0", ".", "3">>,
      <<"0", ".", "5">>, <<"5">> }

StatedStrength(t) ==
    CASE t = <<"-", "1">> -> 0 - 100
      [] t = <<"0">> -> 0
      [] t = <<"0", ".", "1", "5">> -> 15
      [] t = <<"0", ".", "3">> -> 30
      [] t = <<"0", ".", "5">> -> 50
      [] t = <<"5">> -> 500

\* min(max(0, s), 0.3), in hundredths
StatedClamp(s) == IF s < 0 THEN 0 ELSE IF s > 30 THEN 30 ELSE s

\* the transform value for an offset of scroll * clamp(s) * -1
StatedOffset(scroll, t) ==
    [set |-> TRUE, nan |-> FALSE, v |-> scroll * StatedClamp(StatedStrength(t)) * (0 - 1)]

\* C5: on every frame that reads a scroll position different from the baseline,
\* each snapshotted element with numeric strength s is assigned the offset
\* scroll * min(max(0, s), 0.3) * -1 for the scroll position read in that frame.
C5_OffsetFormula ==
    [][(updateParallax /\ scrollY # lastScrollY) =>
          \A e \in parallaxElements :
              dataParallax[e] \in NumericStrengths =>
                  transform'[e] = StatedOffset(scrollY, dataParallax[e])]_vars

\* strength "0.5" at scroll 200 was given -60px, next to an element of strength -1
C5_Witness ==
    /\ lastTick = "changed"
    /\ lastScrollY = 200
    /\ \E e \in parallaxElements :
          /\ dataParallax[e] = <<"0", ".", "5">>
          /\ transform[e] = [set |-> TRUE, nan |-> FALSE, v |-> 0 - 6000]
    /\ \E e \in parallaxElements :
          /\ dataParallax[e] = <<"-", "1">>
          /\ transform[e] = [set |-> TRUE, nan |-> FALSE, v |-> 0]

\* C6 as stated: in every state after setupParallax with reduced motion off, the
\* offset applied to a snapshotted element (of numeric strength, once one has been
\* applied) is clamped strength x the current scroll position x -1.
C6_OffsetTracksCurrentScroll ==
    (pc = "loaded" /\ ~prefersReducedMotion) =>
        \A e \in parallaxElements :
            (dataParallax[e] \in NumericStrengths /\ transform[e].set) =>
                transform[e] = StatedOffset(scrollY, dataParallax[e])

\* C6 amended: in every state after setupParallax with reduced motion off, each
\* snapshotted element either has had no offset applied (no frame has yet read a
\* scroll position different from the baseline) or carries clamped strength x
\* stored baseline x -1, the baseline being the scroll position read by the last
\* frame that saw a change; the clamped strength of a numeric attribute lies in
\* [0, 0.3] and a malformed attribute gives a not-a-number offset.
C6_OffsetTracksBaseline ==
    (pc = "loaded" /\ ~prefersReducedMotion) =>
        /\ \A e \in parallaxElements :
              /\ transform[e].set <=> (\E f \in parallaxElements : transform[f].set)
              /\ transform[e].set =>
                    IF dataParallax[e] \in NumericStrengths
                    THEN /\ transform[e] = StatedOffset(lastScrollY, dataParallax[e])
                         /\ StatedClamp(StatedStrength(dataParallax[e])) \in 0..30
                    ELSE transform[e].nan
        /\ \A e \in ElemIds \ parallaxElements : ~transform[e].set

\* an offset computed at scroll 100 is still applied after the window moved to 200
C6_Witness ==
    /\ ~prefersReducedMotion
    /\ lastScrollY = 100
    /\ scrollY = 200
    /\ \E e \in parallaxElements :
          /\ dataParallax[e] = <<"0", ".", "3">>
          /\ transform[e] = [set |-> TRUE, nan |-> FALSE, v |-> 0 - 3000]

\* C7: with no mount element, load leaves the document as it was and logs no
\* "found" message: after the load handler the placeholder content is intact,
\* innerHTML was never assigned, and the only loader message is the skip one.
C7_AbsentMountUntouched ==
    (pc = "loaded" /\ ~panoPresent) =>
        /\ panoInnerHTML = <<"placeholder">>
        /\ innerHTMLSets = 0
        /\ \A i \in 1..Len(console) : console[i] # MsgPanoFound
        /\ console[1] = MsgPanoSkipped

\* the load handler has run on a document without a mount element
C7_Witness ==
    /\ pc = "loaded"
    /\ ~panoPresent
    /\ Len(console) = 2

\* C8: with a mount element of data-source X, after load its content is exactly
\* the confirmation markup embedding X, and over the whole session the content
\* is assigned at most once (exactly once, by load).
C8_MountContentSetOnce ==
    /\ innerHTMLSets <= 1
    /\ (pc = "loaded" /\ panoPresent) =>
          /\ innerHTMLSets = 1
          /\ console[1] = MsgPanoFound
          /\ panoInnerHTML =
                << "<p class=\"text-lg text-indigo-700 font-semibold\">360 Viewer Initialized! (Source: ",
                   panoSrc.str, ")</p>" >>

\* the mount element of source "tour.jpg" shows its confirmation after a
\* section was revealed and a frame moved an element
C8_Witness ==
    /\ pc = "loaded"
    /\ panoPresent
    /\ panoSrc.str = "tour.jpg"
    /\ panoInnerHTML[2] = "tour.jpg"
    /\ lastTick = "changed"
    /\ \E s \in sections : classVisible[s]
    /\ \E e \in parallaxElements : transform[e].set

\* C9: a section with a wrapper that has received an intersecting entry is
\* flagged visible and unobserved when the callback returns; under reduced
\* motion the wrapper's transition was already "none" when the flag was added;
\* without reduced motion no wrapper's transition style is ever written.
C9_RevealOnIntersect ==
    /\ \A s \in sections :
          (hasContent[s] /\ gotIntersecting[s]) =>
              /\ classVisible[s]
              /\ s \notin observed
              /\ prefersReducedMotion =>
                    (transition[s] = "none" /\ transitionAtReveal[s] = "none")
    /\ ~prefersReducedMotion => \A s \in SectionIds : transition[s] = ""

\* under reduced motion a section was revealed with its transition disabled
C9_Witness ==
    /\ prefersReducedMotion
    /\ \E s \in sections :
          /\ hasContent[s] /\ gotIntersecting[s] /\ classVisible[s]
          /\ transitionAtReveal[s] = "none"
          /\ s \notin observed

\* C10: with reduced motion off the frame loop neither stops nor overlaps:
\* from setupParallax on exactly one frame callback is pending in every state,
\* whichever branch the frames took.
C10_OneFramePending ==
    /\ (pc = "loaded" /\ ~prefersReducedMotion) => rafPending = 1
    /\ pc = "waiting" => rafPending = 0

\* a frame that found the scroll position unchanged has left one frame pending,
\* after an earlier frame had applied offsets
C10_Witness ==
    /\ rafPending = 1
    /\ lastTick = "unchanged"
    /\ scrollY # 0
    /\ \A e \in ElemIds : e \in parallaxElements /\ transform[e].set

\* C11: before the page-load event nothing has been mutated, observed or
\* scheduled; the page-load handler runs load360ViewerScript, then
\* setupIntersectionObserver, then setupParallax, each exactly once.
C11_LoadRunsComponentsInOrder ==
    /\ pc = "waiting" =>
          /\ calls = <<>>
          /\ console = <<>>
          /\ panoInnerHTML = <<"placeholder">>
          /\ innerHTMLSets = 0
          /\ sections = {}
          /\ observed = {}
          /\ parallaxElements = {}
          /\ rafPending = 0
          /\ lastTick = "none"
          /\ \A s \in SectionIds : ~classVisible[s] /\ transition[s] = ""
          /\ \A e \in ElemIds : ~transform[e].set
    /\ pc = "loaded" =>
          /\ calls = <<"load360ViewerScript", "setupIntersectionObserver", "setupParallax">>
          /\ console = << IF panoPresent THEN MsgPanoFound ELSE MsgPanoSkipped,
                          IF prefersReducedMotion THEN MsgParallaxDisabled
                          ELSE MsgParallaxActive >>
          /\ sections = domSections
          /\ innerHTMLSets = IF panoPresent THEN 1 ELSE 0

\* the load handler has run on a document with a mount element, a section and a
\* parallax element, and all three components have taken effect
C11_Witness ==
    /\ pc = "loaded"
    /\ Len(calls) = 3
    /\ panoPresent /\ innerHTMLSets = 1
    /\ sections # {}
    /\ parallaxElements # {} /\ rafPending = 1

\* C12: an observer entry that is not intersecting changes nothing: applied to
\* any snapshotted section it leaves the flags, the wrappers' transition styles
\* and the observed set as they are, and a callback that delivers the first
\* such entry and no section's first intersecting entry is a step that changes
\* none of them; a section that is not flagged is still observed; and no step
\* removes a flag once applied.
C12_NonIntersectingIgnored ==
    /\ [](\A s \in sections :
             /\ LET st == observerEntry(RevealState, [target |-> s, isIntersecting |-> FALSE])
                IN  /\ st.classVisible = classVisible
                    /\ st.transition = transition
                    /\ st.observed = observed
             /\ ~classVisible[s] => s \in observed)
    /\ [][/\ \A s \in SectionIds : classVisible[s] => classVisible'[s]
          /\ (~ignoredEntry /\ ignoredEntry' /\ gotIntersecting' = gotIntersecting)
                => UNCHANGED <<classVisible, transition, observed>>]_vars

\* the only snapshotted section has a wrapper, was delivered a non-intersecting
\* entry and is still unflagged and observed
C12_Witness ==
    /\ sections = {1}
    /\ hasContent[1]
    /\ ignoredEntry
    /\ ~gotIntersecting[1]
    /\ ~classVisible[1]
    /\ 1 \in observed

\* C13: the observed sections and the parallax elements are fixed when the
\* controllers start: after page load neither snapshot changes, the observed
\* set stays within the section snapshot, a section inserted later is never
\* observed, flagged or restyled, and an element inserted later never has a
\* transform assigned, whatever frames run.
C13_SnapshotsFixedAtStart ==
    /\ [](/\ observed \subseteq sections
          /\ sections \subseteq domSections
          /\ parallaxElements \subseteq domParallax
          /\ \A s \in SectionIds \ sections :
                ~classVisible[s] /\ transition[s] = "" /\ ~gotIntersecting[s]
          /\ \A e \in ElemIds \ parallaxElements : ~transform[e].set)
    /\ [][pc = "loaded" =>
             (sections' = sections /\ parallaxElements' = parallaxElements)]_vars

\* a section with a wrapper and an element with a numeric strength were
\* inserted after load; since then a snapshotted section has been revealed and
\* a frame has written the snapshotted element's offset at scroll 500
C13_Witness ==
    /\ pc = "loaded"
    /\ sections = {1} /\ domSections = {1, 2} /\ hasContent[2]
    /\ classVisible[1] /\ ~classVisible[2]
    /\ parallaxElements = {1} /\ domParallax = {1, 2}
    /\ dataParallax[2] = <<"0", ".", "5">>
    /\ transform[1].set /\ ~transform[2].set
    /\ lastTick = "changed" /\ lastScrollY = 500

\* C14: the reduced-motion flag is sampled once: no step changes it, and
\* however the platform's preference changes before or after page load, the
\* frame loop is pending after load exactly when the sampled flag is false, no
\* frame runs when it is true, and every reveal disables the wrapper's
\* transition exactly when the sampled flag is true.
C14_PreferenceSampledOnce ==
    /\ [](/\ pc = "loaded" =>
                /\ (rafPending = 1) <=> ~prefersReducedMotion
                /\ rafPending \in {0, 1}
                /\ console[Len(console)] = IF prefersReducedMotion
                                           THEN MsgParallaxDisabled
                                           ELSE MsgParallaxActive
          /\ prefersReducedMotion =>
                (lastTick = "none" /\ \A e \in ElemIds : ~transform[e].set)
          /\ \A s \in sections :
                classVisible[s] =>
                    /\ transitionAtReveal[s] = IF prefersReducedMotion THEN "none" ELSE ""
                    /\ transition[s] = transitionAtReveal[s])
    /\ [][prefersReducedMotion' = prefersReducedMotion]_vars

\* the flag was sampled false and the platform now prefers reduced motion;
\* since the change a section has been revealed with its transition left
\* alone, a frame has run and the next frame is pending
C14_Witness ==
    /\ pc = "loaded"
    /\ ~prefersReducedMotion /\ mediaPref
    /\ sinceChange = {"reveal", "tick"}
    /\ \E s \in sections : classVisible[s] /\ transition[s] = ""
    /\ lastTick = "changed"
    /\ rafPending = 1

\* C15: on a frame that reads a changed scroll position, a snapshotted element
\* whose strength text is not a number is assigned a NaN offset, every
\* snapshotted element with a numeric strength is assigned its clamped offset
\* in the same frame, and the next frame is requested.
C15_MalformedStrengthGivesNaN ==
    [][(updateParallax /\ scrollY # lastScrollY) =>
          /\ \A e \in parallaxElements :
                /\ dataParallax[e] = <<"a", "b", "c">> =>
                      transform'[e] = [set |-> TRUE, nan |-> TRUE, v |-> 0]
                /\ dataParallax[e] \in NumericStrengths =>
                      transform'[e] = StatedOffset(scrollY, dataParallax[e])
          /\ rafPending' = 1
          /\ lastTick' = "changed"]_vars

\* one frame at scroll 200 gave the malformed element a NaN offset and the
\* element of strength 0.5 the offset -60px, and the next frame is pending
C15_Witness ==
    /\ parallaxElements = {1, 2}
    /\ dataParallax[1] = <<"a", "b", "c">>
    /\ dataParallax[2] = <<"0", ".", "5">>
    /\ transform[1] = [set |-> TRUE, nan |-> TRUE, v |-> 0]
    /\ transform[2] = [set |-> TRUE, nan |-> FALSE, v |-> 0 - 6000]
    /\ lastTick = "changed" /\ lastScrollY = 200
    /\ rafPending = 1

\* C16: after page load a snapshotted section is flagged exactly when it is no
\* longer observed, that is, the observed set is the snapshot without the
\* flagged sections; and an intersecting entry for one observed section leaves
\* the flag and the observed status of every other section as they are.
C16_FlaggedIffUnobserved ==
    pc = "loaded" =>
        /\ observed = sections \ {s \in sections : classVisible[s]}
        /\ \A s \in sections : classVisible[s] <=> s \notin observed
        /\ \A s \in observed :
              LET st == observerEntry(RevealState, [target |-> s, isIntersecting |-> TRUE])
              IN  \A t \in SectionIds \ {s} :
                      /\ st.classVisible[t] = classVisible[t]
                      /\ (t \in st.observed) <=> (t \in observed)
                      /\ st.transition[t] = transition[t]

\* of two snapshotted sections with a wrapper one has been revealed and is no
\* longer observed, the other was delivered no intersecting entry and is
\* still unflagged and observed
C16_Witness ==
    /\ pc = "loaded"
    /\ sections = {1, 2}
    /\ hasContent[1] /\ hasContent[2]
    /\ \E s \in sections :
          /\ classVisible[s] /\ s \notin observed
          /\ \A t \in sections \ {s} :
                ~classVisible[t] /\ t \in observed /\ ~gotIntersecting[t]

\* the frame loop runs and every snapshotted element has a numeric strength
NumericLoop ==
    /\ pc = "loaded"
    /\ ~prefersReducedMotion
    /\ \A e \in parallaxElements : dataParallax[e] \in NumericStrengths

\* C17: with the reduced-motion flag false and numeric strengths, between
\* frames either no transform has been written or every snapshotted element's
\* offset is -(stored baseline) * clamp(strength); setup stores the scroll
\* position it reads, and while elements are snapshotted and no transform has
\* been written the baseline stays what setup stored; and after every frame
\* the stored baseline is the scroll position that frame read.
C17_BaselineAndOffsetsAgree ==
    /\ [](NumericLoop =>
             \/ \A e \in ElemIds : ~transform[e].set
             \/ \A e \in parallaxElements :
                    transform[e] = StatedOffset(lastScrollY, dataParallax[e]))
    /\ [][/\ (OnLoad /\ ~prefersReducedMotion) => lastScrollY' = scrollY
          /\ (NumericLoop /\ parallaxElements # {} /\ \A e \in ElemIds : ~transform'[e].set)
                => lastScrollY' = lastScrollY
          /\ (NumericLoop /\ updateParallax) =>
                (lastScrollY' = scrollY /\ scrollY' = scrollY)]_vars

\* a frame read scroll 500 after an earlier baseline and wrote both elements'
\* offsets, -150px for strength 0.5 (clamped to 0.3) and -75px for 0.15
C17_Witness ==
    /\ NumericLoop
    /\ parallaxElements = {1, 2}
    /\ dataParallax[1] = <<"0", ".", "5">>
    /\ dataParallax[2] = <<"0", ".", "1", "5">>
    /\ lastTick = "changed"
    /\ lastScrollY = 500 /\ scrollY = 500
    /\ transform[1] = [set |-> TRUE, nan |-> FALSE, v |-> 0 - 15000]
    /\ transform[2] = [set |-> TRUE, nan |-> FALSE, v |-> 0 - 7500]

====
